---------------------------- MODULE Spec2Model ----------------------------
(***************************************************************************)
(* Model of the incremental synchronisation pipeline of the Phoenix crime  *)
(* data updater (src/dataupdate.py, class PhoenixCrimeAPIUpdater) and of   *)
(* the status endpoint that reads its run report (src/api.py).             *)
(*                                                                         *)
(* One sync cycle (run_api_update) is split into one action per phase, at  *)
(* the points where it reads or writes state shared with other cycles (the *)
(* crimes table, the status file).  Two callers can run cycles: the        *)
(* scheduler loop and an on-demand invocation.                             *)
(*                                                                         *)
(* Spec is the pipeline as a whole.  SpecNorm applies the normalizer       *)
(* (clean_api_data) alone, and SpecGate the filter and write of            *)
(* update_database alone, to every input of a bounded set.                 *)
(***************************************************************************)
EXTENDS Integers, Sequences, FiniteSets, TLC

(***************************************************************************)
(* Bounds of the model.                                                    *)
(***************************************************************************)
\* total number of cycles started in one behaviour
MaxCycles == 2
\* longest upstream dataset among the generated (non-scenario) datasets
MaxLen == 2
\* number of failures of the environment (network, database, file system,
\* interrupt) injected in one behaviour
MaxFaults == 1
\* longest batch given to the normalizer, or to the gate, on its own
NormLen == 2

(***************************************************************************)
(* Python values.                                                          *)
(***************************************************************************)
\* Python None, as a value of a raw record's field
PyNone == "<None>"
\* a key that the raw record (a dict) does not carry: NaN in the DataFrame
Absent == "<absent>"
\* pandas NaT / SQL NULL for a timestamp; timestamps count half days
\* (2 * day of March 2024, + 1 for 12:00)
NaT == 0
\* timedelta(days=1) in half days
Day == 2

\* The callers that can run cycles: the scheduler process' loop
\* (schedule_updates) and an on-demand invocation (run_update_once).
Procs == {"scheduler", "once"}

\* page size of fetch_all_new_records (10000 in the source, scaled down)
limit == 3
\* upstream hard ceiling of the page size (32000 in the source, scaled down)
ApiLimit == 5

\* self.status_file of the updater, and the file the API endpoint reads
status_file == "api_update_status.json"
api_status_file == "update_status.json"
FileNames == {status_file, api_status_file}

\* contents of a status file other than a report
NoFile == [kind |-> "nofile"]
Truncated == [kind |-> "truncated"]

Min(a, b) == IF a < b THEN a ELSE b

(***************************************************************************)
(* Conversions.                                                            *)
(***************************************************************************)
\* str.strip() on the identifier strings of the model
Strip(s) ==
  CASE s = " INC-100 " -> "INC-100"
    [] s = "  " -> ""
    [] OTHER -> s

\* Series.astype(str): None becomes 'None', NaN (missing key) becomes 'nan'
AsStr(v) ==
  CASE v = PyNone -> "None"
    [] v = Absent -> "nan"
    [] OTHER -> v

\* pd.to_datetime(..., errors='coerce') on the date strings of the model
to_datetime(v) ==
  CASE v = "2024-03-07" -> 14
    [] v = "2024-03-08" -> 16
    [] v = "2024-03-09" -> 18
    [] v = "2024-03-10" -> 20
    [] v = "2024-03-10 12:00" -> 21
    [] v = "2024-03-11" -> 22
    [] OTHER -> NaT

\* datetime.strftime('%Y-%m-%d'): the time of day is dropped
strftime(d) ==
  CASE d \div Day = 7 -> "2024-03-07"
    [] d \div Day = 8 -> "2024-03-08"
    [] d \div Day = 9 -> "2024-03-09"
    [] d \div Day = 10 -> "2024-03-10"
    [] d \div Day = 11 -> "2024-03-11"
    [] OTHER -> "0000-00-00"

\* The SQL string literals that the text '<id>' denotes inside IN (...) of the
\* interpolated existence query; {"<syntax error>"} when the quotes of the
\* identifier unbalance the statement.
SqlError == "<syntax error>"
Interpolate(id) ==
  CASE id = "INC-1', 'INC-2" -> {"INC-1", "INC-2"}
    [] id = "O'B" -> {SqlError}
    [] OTHER -> {id}

(***************************************************************************)
(* Raw records and rows.                                                   *)
(***************************************************************************)
\* a raw upstream record: 'INC NUMBER', 'OCCURRED ON', '100 BLOCK ADDR'
Raw(inc, occ, addr) == [inc |-> inc, occ |-> occ, addr |-> addr]

\* a row of the crimes table / of a cleaned DataFrame
Row(id, date, addr) == [incident_id |-> id, occurred_date |-> date, address |-> addr]

RECURSIVE SeqMax(_)
SeqMax(s) ==
  IF s = <<>> THEN NaT
  ELSE LET m == SeqMax(Tail(s)) IN IF Head(s) > m THEN Head(s) ELSE m

Ids(rows) == {rows[i].incident_id : i \in 1..Len(rows)}


(***************************************************************************)
(* Record Normalizer: clean_api_data.                                      *)
(***************************************************************************)
\* df.columns of pd.DataFrame(records): the keys that some record carries
HasColumn(records, f) == \E i \in 1..Len(records) : records[i][f] # Absent

\* lines 207-208: the cleaned identifier, and whether the row is kept
CleanId(v) == Strip(AsStr(v))
KeepId(id) == id # "" /\ id # "nan"

\* lines 219-223: a text column after cleaning
CleanText(v) ==
  LET t == Strip(AsStr(v))
  IN IF t \in {"nan", "NaN", "", "None"} THEN PyNone ELSE t

\* lines 199-223 on one record, given the columns of the frame
CleanRow(r, hasDate, hasAddr) ==
  Row(CleanId(r.inc),
      IF hasDate THEN to_datetime(r.occ) ELSE NaT,
      IF hasAddr THEN CleanText(r.addr) ELSE PyNone)

\* drop_duplicates that drops nothing
drop_duplicates_KeepAll(rows, seen) == rows

\* drop_duplicates(subset=['incident_id'], keep='last')
RECURSIVE drop_duplicates_KeepLast(_, _)
drop_duplicates_KeepLast(rows, seen) ==
  IF rows = <<>> THEN <<>>
  ELSE IF \E j \in 2..Len(rows) : rows[j].incident_id = Head(rows).incident_id
       THEN drop_duplicates_KeepLast(Tail(rows), seen)
       ELSE <<Head(rows)>> \o drop_duplicates_KeepLast(Tail(rows), seen)

\* line 230: drop_duplicates(subset=['incident_id'], keep='first')
RECURSIVE drop_duplicates(_, _)
drop_duplicates(rows, seen) ==
  IF rows = <<>> THEN <<>>
  ELSE IF Head(rows).incident_id \in seen
       THEN drop_duplicates(Tail(rows), seen)
       ELSE <<Head(rows)>> \o
            drop_duplicates(Tail(rows), seen \cup {Head(rows).incident_id})

\* clean_api_data: [raised, df].  df['incident_id'] raises KeyError when no
\* record carries 'INC NUMBER'; the date filter runs only when some record
\* carries 'OCCURRED ON'.
clean_api_data(records) ==
  IF records = <<>> THEN [raised |-> FALSE, df |-> <<>>]
  ELSE IF ~HasColumn(records, "inc") THEN [raised |-> TRUE, df |-> <<>>]
  ELSE
    LET hasDate == HasColumn(records, "occ")
        hasAddr == HasColumn(records, "addr")
        rows == [i \in 1..Len(records) |-> CleanRow(records[i], hasDate, hasAddr)]
        byId == SelectSeq(rows, LAMBDA w : KeepId(w.incident_id))
        byDate == IF hasDate
                  THEN SelectSeq(byId, LAMBDA w : w.occurred_date # NaT)
                  ELSE byId
    IN [raised |-> FALSE, df |-> drop_duplicates(byDate, {})]

(***************************************************************************)
(* The upstream catalog API (datastore_search) and the crimes table.       *)
(***************************************************************************)
\* the records the upstream holds that pass the filter {'OCCURRED ON': '>date'}
Matching(ds, date_str) ==
  IF date_str = PyNone THEN ds
  ELSE SelectSeq(ds, LAMBDA r : to_datetime(r.occ) > to_datetime(date_str))

\* one page of the result: records offset+1 .. offset+limit
Page(ds, lim, off) ==
  SubSeq(ds, off + 1, Min(Len(ds), off + lim))

\* SELECT MAX(occurred_date) FROM crimes (NULL on an empty table)
MaxOccurred(table) == SeqMax([i \in 1..Len(table) |-> table[i].occurred_date])

\* lines 253-257: the identifiers the interpolated existence query returns
QueryLiterals(df) == UNION {Interpolate(df[i].incident_id) : i \in 1..Len(df)}
existing_ids(table, df) == Ids(table) \cap QueryLiterals(df)

\* line 262: df[~df['incident_id'].isin(existing_ids)]
FilterExisting(df, existing) ==
  SelectSeq(df, LAMBDA w : w.incident_id \notin existing)

\* The table refuses a row whose address does not fit its column.
Rejects(w) == w.address = "long"

\* a table without the uniqueness constraint
UniqueViolation_NoConstraint(table, rows) == FALSE

\* The uniqueness constraint on crimes.incident_id: inserting rows violates it
\* when an identifier is already present or occurs twice among the rows.
UniqueViolation(table, rows) ==
  \/ Ids(table) \cap Ids(rows) # {}
  \/ Cardinality(Ids(rows)) # Len(rows)

\* df.to_sql(..., if_exists='replace'): the table becomes the frame
to_sql_Replace(table, rows) ==
  IF \E i \in 1..Len(rows) : Rejects(rows[i])
  THEN [ok |-> FALSE, table |-> table]
  ELSE [ok |-> TRUE, table |-> rows]

\* line 271: df.to_sql(..., if_exists='append', method='multi'): one INSERT in
\* one transaction; [ok, table]
to_sql(table, rows) ==
  IF UniqueViolation(table, rows) \/ \E i \in 1..Len(rows) : Rejects(rows[i])
  THEN [ok |-> FALSE, table |-> table]
  ELSE [ok |-> TRUE, table |-> table \o rows]

(***************************************************************************)
(* State.                                                                  *)
(***************************************************************************)
VARIABLES
  crimes,       \* the crimes table: a sequence of rows
  upstream,     \* the records the upstream catalog holds
  files,        \* the status files: file name -> report, NoFile or Truncated
  shown,        \* 'last_update' of the latest /api/update-status response
  clock,        \* datetime.now() as a counter: the number of cycles started
  pc,           \* per caller: the phase its cycle is in
  status,       \* per caller: the status dict (RunReport) of its cycle
  since_date,   \* per caller: since_date of its cycle (NaT for None)
  all_records,  \* per caller: all_records of fetch_all_new_records
  offset,       \* per caller: offset of fetch_all_new_records
  fetched,      \* per caller: what its last call of fetch_new_records gave
  df,           \* per caller: the cleaned frame (df of run_api_update)
  new_df,       \* per caller: the filtered frame (df inside update_database)
  ret,          \* per caller: what run_api_update returned
  faults,       \* per caller (history): the phases that failed in its cycle
  committed,    \* per caller (history): rows its cycle committed to crimes
  nfaults,      \* (history) number of environment failures injected so far
  lastRun       \* (history) start_time of the cycle that finalized last

vars == <<crimes, upstream, files, shown, clock, pc, status, since_date,
          all_records, offset, fetched, df, new_df, ret, faults, committed, nfaults,
          lastRun>>

shared == <<crimes, upstream, files, shown, lastRun>>

\* lines 295-302: the status dict at the start of a cycle; start_time is
\* the only time stamp of the report that the model keeps
NewStatus(t) ==
  [start_time |-> t, success |-> FALSE, records_fetched |-> 0,
   records_cleaned |-> -1, records_inserted |-> 0, error |-> PyNone,
   message |-> Absent, dataset_last_modified |-> Absent]

NoStatus == NewStatus(0)

\* 'fetched' while no call of fetch_new_records has returned
NotFetched == [records |-> <<>>, total |-> -1, raised |-> FALSE]

(***************************************************************************)
(* Initial states: a table with unique identifiers and an upstream dataset.*)
(***************************************************************************)
\* raw records of the generated datasets
GenRecords ==
  << Raw("INC-1", "2024-03-10 12:00", "ok"),
     Raw("INC-2", "2024-03-11", "ok"),
     Raw("INC-3", "2024-03-09", "ok") >>

\* the records of seq whose index is in I, in the order of seq (from index k)
RECURSIVE Select(_, _, _)
Select(seq, I, k) ==
  IF k > Len(seq) THEN <<>>
  ELSE (IF k \in I THEN <<seq[k]>> ELSE <<>>) \o Select(seq, I, k + 1)

\* the selections of at most n records of seq
SelectionsUpTo(seq, n) ==
  { Select(seq, I, 1) : I \in {J \in SUBSET (1..Len(seq)) : Cardinality(J) <= n} }

RECURSIVE SeqsUpTo(_, _)
SeqsUpTo(S, n) ==
  IF n = 0 THEN {<<>>}
  ELSE LET shorter == SeqsUpTo(S, n - 1)
       IN shorter \cup {Append(s, x) : s \in {t \in shorter : Len(t) = n - 1}, x \in S}

GenTables == { <<>>, <<Row("INC-1", 21, "ok")>> }

\* 2 pages of 3 records, INC-100 in both pages, INC-103 already stored
TwoPages ==
  << Raw("INC-100", "2024-03-10", "ok"), Raw("INC-101", "2024-03-10", "ok"),
     Raw("INC-102", "2024-03-10", "ok"), Raw("INC-103", "2024-03-10", "ok"),
     Raw(" INC-100 ", "2024-03-10", "ok"), Raw("INC-104", "2024-03-11", "ok") >>
TwoPagesTable == << Row("INC-103", 20, "ok") >>

\* 10 records, 9 of which the table accepts
TenRecords ==
  [i \in 1..10 |->
     Raw(<<"INC-200", "INC-201", "INC-202", "INC-203", "INC-204", "INC-205",
           "INC-206", "INC-207", "INC-208", "INC-209">>[i],
         "2024-03-10", IF i = 4 THEN "long" ELSE "ok")]

\* an identifier whose quotes make the existence query look for two others
QuotedId == << Raw("INC-1', 'INC-2", "2024-03-10", "ok") >>

\* an identifier whose quote unbalances the existence query
UnbalancedQuote == << Raw("INC-1", "2024-03-10", "ok"), Raw("O'B", "2024-03-11", "ok") >>

\* no record carries 'INC NUMBER'
NoIdColumn == << Raw(Absent, "2024-03-10", "ok") >>

Worlds ==
  {[table |-> t, ds |-> d] :
     t \in GenTables, d \in SelectionsUpTo(GenRecords, MaxLen)}
  \cup {[table |-> TwoPagesTable, ds |-> TwoPages],
        [table |-> <<>>, ds |-> TenRecords],
        [table |-> <<>>, ds |-> NoIdColumn],
        [table |-> <<>>, ds |-> UnbalancedQuote],
        [table |-> <<>>, ds |-> QuotedId]}

Init ==
  /\ \E w \in Worlds : crimes = w.table /\ upstream = w.ds
  /\ files = [f \in FileNames |-> NoFile]
  /\ shown = NoFile
  /\ clock = 0
  /\ pc = [p \in Procs |-> "idle"]
  /\ status = [p \in Procs |-> NoStatus]
  /\ since_date = [p \in Procs |-> NaT]
  /\ all_records = [p \in Procs |-> <<>>]
  /\ offset = [p \in Procs |-> 0]
  /\ fetched = [p \in Procs |-> NotFetched]
  /\ df = [p \in Procs |-> <<>>]
  /\ new_df = [p \in Procs |-> <<>>]
  /\ ret = [p \in Procs |-> "none"]
  /\ faults = [p \in Procs |-> {}]
  /\ committed = [p \in Procs |-> 0]
  /\ nfaults = 0
  /\ lastRun = 0

(***************************************************************************)
(* One sync cycle: run_api_update, one action per phase.                   *)
(***************************************************************************)
\* the outcomes the environment can give a call: it answers (TRUE) or, while
\* the fault budget lasts, fails (FALSE)
Answers == {TRUE} \cup (IF nfaults < MaxFaults THEN {FALSE} ELSE {})

Fault(p, phase) == [faults EXCEPT ![p] = @ \cup {phase}]

\* a phase of p's cycle ran without failure / failed on the environment /
\* failed on the data
NoFault == UNCHANGED <<faults, nfaults>>
EnvFault(p, phase) == faults' = Fault(p, phase) /\ nfaults' = nfaults + 1
DataFault(p, phase) == faults' = Fault(p, phase) /\ UNCHANGED nfaults

\* lines 291-302: a caller starts a cycle
Start(p) ==
  /\ pc[p] \in {"idle", "done"}
  /\ clock < MaxCycles
  /\ clock' = clock + 1
  /\ status' = [status EXCEPT ![p] = NewStatus(clock + 1)]
  /\ pc' = [pc EXCEPT ![p] = "metadata"]
  /\ since_date' = [since_date EXCEPT ![p] = NaT]
  /\ all_records' = [all_records EXCEPT ![p] = <<>>]
  /\ offset' = [offset EXCEPT ![p] = 0]
  /\ fetched' = [fetched EXCEPT ![p] = NotFetched]
  /\ df' = [df EXCEPT ![p] = <<>>]
  /\ new_df' = [new_df EXCEPT ![p] = <<>>]
  /\ ret' = [ret EXCEPT ![p] = "none"]
  /\ faults' = [faults EXCEPT ![p] = {}]
  /\ committed' = [committed EXCEPT ![p] = 0]
  /\ UNCHANGED <<shared, nfaults>>

\* lines 306-310 (get_dataset_metadata, lines 71-97): the metadata call
\* answers or fails; a failure returns None and the cycle goes on
GetMetadata(p) ==
  /\ pc[p] = "metadata"
  /\ \E ok \in Answers :
       /\ status' = [status EXCEPT ![p].dataset_last_modified =
                        IF ok THEN "last_modified" ELSE @]
       /\ IF ok THEN NoFault ELSE EnvFault(p, "metadata")
  /\ pc' = [pc EXCEPT ![p] = "watermark"]
  /\ UNCHANGED <<shared, clock, fetched, since_date, all_records, offset, df, new_df,
                 ret, committed>>

\* since_date without the buffer
SinceDate_NoBuffer(latest_db_date) == latest_db_date

\* lines 316-320: since_date, one day before the watermark (None without one)
SinceDate(latest_db_date) ==
  IF latest_db_date # NaT THEN latest_db_date - Day ELSE NaT

\* lines 135-140: the date of the filter '>date_str' that p's cycle sends
\* (PyNone: no filter)
DateStr(p) == IF since_date[p] # NaT THEN strftime(since_date[p]) ELSE PyNone

\* an offset that advances by one record less than a page
NextOffset_Overlaps(off) == off + limit - 1

\* line 180: offset += limit
NextOffset(off) == off + limit

\* a watermark read whose failure ends the cycle with an error
GetLatestDbDate_FailureAborts(p) ==
  /\ pc[p] = "watermark"
  /\ \E ok \in Answers :
       IF ok
       THEN /\ since_date' = [since_date EXCEPT ![p] =
                                SinceDate(MaxOccurred(crimes))]
            /\ NoFault
            /\ pc' = [pc EXCEPT ![p] = "fetching"]
            /\ UNCHANGED status
       ELSE /\ EnvFault(p, "watermark")
            /\ status' = [status EXCEPT ![p].error = "Watermark read failed"]
            /\ pc' = [pc EXCEPT ![p] = "finalizing"]
            /\ UNCHANGED since_date
  /\ UNCHANGED <<shared, clock, fetched, all_records, offset, df, new_df, ret,
                 committed>>

\* lines 313-321 (get_latest_db_date, lines 99-114): the watermark read
\* answers MAX(occurred_date) or fails and returns None
GetLatestDbDate(p) ==
  /\ pc[p] = "watermark"
  /\ \E ok \in Answers :
       LET latest_db_date == IF ok THEN MaxOccurred(crimes) ELSE NaT
       IN /\ since_date' = [since_date EXCEPT ![p] = SinceDate(latest_db_date)]
          /\ IF ok THEN NoFault ELSE EnvFault(p, "watermark")
  /\ pc' = [pc EXCEPT ![p] = "fetching"]
  /\ UNCHANGED <<shared, clock, fetched, status, all_records, offset, df, new_df, ret,
                 committed>>

\* AfterFetch whose return on no records leaves the function at once, as a
\* return outside the try/finally would
AfterFetch_ReturnSkipsFinally(p, records) ==
  IF records = <<>>
  THEN /\ status' = [status EXCEPT ![p].records_fetched = 0,
                                   ![p].success = TRUE,
                                   ![p].message = "No new records available"]
       /\ pc' = [pc EXCEPT ![p] = "done"]
  ELSE /\ status' = [status EXCEPT ![p].records_fetched = Len(records)]
       /\ pc' = [pc EXCEPT ![p] = "cleaning"]

\* AfterFetch that takes an empty fetch for a failure
AfterFetch_EmptyIsError(p, records) ==
  IF records = <<>>
  THEN /\ status' = [status EXCEPT ![p].records_fetched = 0,
                                   ![p].error = "No records fetched"]
       /\ pc' = [pc EXCEPT ![p] = "finalizing"]
  ELSE /\ status' = [status EXCEPT ![p].records_fetched = Len(records)]
       /\ pc' = [pc EXCEPT ![p] = "cleaning"]

\* AfterFetch that raises when the page loop was ended by a failed fetch
AfterFetch_FailedFetchIsError(p, records) ==
  IF "fetch" \in faults'[p]
  THEN /\ status' = [status EXCEPT ![p].records_fetched = Len(records),
                                   ![p].error = "Fetch failed"]
       /\ pc' = [pc EXCEPT ![p] = "finalizing"]
  ELSE IF records = <<>>
  THEN /\ status' = [status EXCEPT ![p].records_fetched = 0,
                                   ![p].success = TRUE,
                                   ![p].message = "No new records available"]
       /\ pc' = [pc EXCEPT ![p] = "finalizing"]
  ELSE /\ status' = [status EXCEPT ![p].records_fetched = Len(records)]
       /\ pc' = [pc EXCEPT ![p] = "cleaning"]

\* lines 325-331: after the page loop; with no records the cycle returns True
\* from inside the try block (the finally block still runs)
AfterFetch(p, records) ==
  IF records = <<>>
  THEN /\ status' = [status EXCEPT ![p].records_fetched = 0,
                                   ![p].success = TRUE,
                                   ![p].message = "No new records available"]
       /\ pc' = [pc EXCEPT ![p] = "finalizing"]
  ELSE /\ status' = [status EXCEPT ![p].records_fetched = Len(records)]
       /\ pc' = [pc EXCEPT ![p] = "cleaning"]

\* lines 125-161: what a call of fetch_new_records gives its caller; ok is
\* whether the request was answered with success. The function raises
\* nothing: a failure is logged and ([], 0) returned (lines 155-161)
fetch_new_records(ok, date_str, lim, off) ==
  IF ok
  THEN [records |-> Page(Matching(upstream, date_str), Min(lim, ApiLimit), off),
        total |-> Len(Matching(upstream, date_str)),
        raised |-> FALSE]
  ELSE [records |-> <<>>, total |-> 0, raised |-> FALSE]

\* lines 173-186: one iteration of the page loop of fetch_all_new_records
FetchPage(p) ==
  /\ pc[p] = "fetching"
  /\ \E ok \in Answers :
       LET result == fetch_new_records(ok, DateStr(p), limit, offset[p])
           records == result.records
       IN /\ IF ok THEN NoFault ELSE EnvFault(p, "fetch")
          /\ fetched' = [fetched EXCEPT ![p] = result]
          /\ IF records = <<>>
             THEN /\ AfterFetch(p, all_records[p])
                  /\ UNCHANGED <<all_records, offset>>
             ELSE /\ all_records' = [all_records EXCEPT ![p] = @ \o records]
                  /\ offset' = [offset EXCEPT ![p] = NextOffset(@)]
                  /\ IF Len(records) < limit
                     THEN AfterFetch(p, all_records[p] \o records)
                     ELSE UNCHANGED <<status, pc>>
  /\ UNCHANGED <<shared, clock, since_date, df, new_df, ret, committed>>

\* lines 334-335, and lines 348-350 when clean_api_data raises
Clean(p) ==
  /\ pc[p] = "cleaning"
  /\ LET r == clean_api_data(all_records[p])
     IN IF r.raised
        THEN /\ status' = [status EXCEPT ![p].error = "'incident_id'"]
             /\ DataFault(p, "normalize")
             /\ pc' = [pc EXCEPT ![p] = "finalizing"]
             /\ UNCHANGED df
        ELSE /\ df' = [df EXCEPT ![p] = r.df]
             /\ status' = [status EXCEPT ![p].records_cleaned = Len(r.df)]
             /\ pc' = [pc EXCEPT ![p] = "dedup"]
             /\ NoFault
  /\ UNCHANGED <<shared, clock, fetched, since_date, all_records, offset, new_df, ret,
                 committed>>

\* AfterUpdate that ends a failed update without raising
AfterUpdate_FailureWithoutError(p, success) ==
  /\ status' = IF success
               THEN [status EXCEPT ![p].records_inserted = Len(df[p]),
                                   ![p].success = TRUE,
                                   ![p].message = "Successfully processed"]
               ELSE [status EXCEPT ![p].records_inserted = 0]
  /\ pc' = [pc EXCEPT ![p] = "finalizing"]

\* lines 339-350: what run_api_update does with update_database's result
AfterUpdate(p, success) ==
  /\ status' = IF success
               THEN [status EXCEPT ![p].records_inserted = Len(df[p]),
                                   ![p].success = TRUE,
                                   ![p].message = "Successfully processed"]
               ELSE [status EXCEPT ![p].records_inserted = 0,
                                   ![p].error = "Database update failed"]
  /\ pc' = [pc EXCEPT ![p] = "finalizing"]

\* update_database, lines 237-268: the existence lookup and the filter
Dedup(p) ==
  /\ pc[p] = "dedup"
  /\ IF Len(df[p]) = 0
     THEN AfterUpdate(p, TRUE) /\ NoFault /\ UNCHANGED new_df
     ELSE \E engine \in Answers, query \in Answers :
            /\ engine \/ query
            /\ IF ~engine \/ ~query
               THEN /\ AfterUpdate(p, FALSE)
                    /\ EnvFault(p, "dedup")
                    /\ UNCHANGED new_df
               ELSE IF SqlError \in QueryLiterals(df[p])
               THEN /\ AfterUpdate(p, FALSE)
                    /\ DataFault(p, "dedup")
                    /\ UNCHANGED new_df
               ELSE LET filtered == FilterExisting(df[p], existing_ids(crimes, df[p]))
                    IN /\ new_df' = [new_df EXCEPT ![p] = filtered]
                       /\ NoFault
                       /\ IF Len(filtered) = 0
                          THEN AfterUpdate(p, TRUE)
                          ELSE /\ pc' = [pc EXCEPT ![p] = "writing"]
                               /\ UNCHANGED status
  /\ UNCHANGED <<shared, clock, fetched, since_date, all_records, offset, df, ret,
                 committed>>

\* update_database, lines 271-285: the insert, then the COUNT(*) query; any
\* exception makes update_database return False.  The insert fails on the
\* environment ("write"), on the uniqueness constraint ("write_unique") or on
\* a row the table refuses ("write_rejected").
Write(p) ==
  /\ pc[p] = "writing"
  /\ \E insert \in Answers, count \in Answers :
       /\ insert \/ count
       /\ LET r == to_sql(crimes, new_df[p])
          IN IF ~insert
             THEN /\ AfterUpdate(p, FALSE)
                  /\ EnvFault(p, "write")
                  /\ UNCHANGED <<crimes, committed>>
             ELSE IF ~r.ok
             THEN /\ AfterUpdate(p, FALSE)
                  /\ DataFault(p, IF UniqueViolation(crimes, new_df[p])
                                  THEN "write_unique" ELSE "write_rejected")
                  /\ UNCHANGED <<crimes, committed>>
             ELSE /\ crimes' = r.table
                  /\ committed' = [committed EXCEPT ![p] = Len(new_df[p])]
                  /\ AfterUpdate(p, count)
                  /\ IF count THEN NoFault ELSE EnvFault(p, "count")
  /\ UNCHANGED <<upstream, files, shown, lastRun, clock, fetched, since_date,
                 all_records, offset, df, new_df, ret>>

\* a return value that a failed save turns into False
ReturnValue_FalseWhenNotSaved(report, saved) ==
  IF report.success /\ saved THEN "True" ELSE "False"

\* line 363: return status['success'], whether the save went through or not
ReturnValue(report, saved) == IF report.success THEN "True" ELSE "False"

\* KeyboardInterrupt raised in p's cycle (Ctrl+C, lines 387-392).  No
\* `except Exception` catches it (line 348 and those of the helpers).  Raised
\* in the try block (lines 304-346) it leaves the status dict as it is and
\* control reaches the finally block; in update_database it arrives before or
\* after the insert is committed.  Raised in the finally block (lines
\* 352-358) it ends the cycle before the file is opened or after open()
\* truncated it.
Cancel(p) ==
  /\ pc[p] \in {"metadata", "watermark", "fetching", "cleaning", "dedup",
               "writing", "finalizing"}
  /\ nfaults < MaxFaults
  /\ IF pc[p] = "finalizing"
     THEN /\ EnvFault(p, "cancel_save")
          /\ \E opened \in BOOLEAN :
               files' = IF opened THEN [files EXCEPT ![status_file] = Truncated]
                        ELSE files
          /\ pc' = [pc EXCEPT ![p] = "done"]
          /\ ret' = [ret EXCEPT ![p] = "KeyboardInterrupt"]
          /\ since_date' = [since_date EXCEPT ![p] = NaT]
          /\ all_records' = [all_records EXCEPT ![p] = <<>>]
          /\ offset' = [offset EXCEPT ![p] = 0]
          /\ fetched' = [fetched EXCEPT ![p] = NotFetched]
          /\ df' = [df EXCEPT ![p] = <<>>]
          /\ new_df' = [new_df EXCEPT ![p] = <<>>]
          /\ UNCHANGED <<crimes, committed>>
     ELSE /\ EnvFault(p, "cancel")
          /\ pc' = [pc EXCEPT ![p] = "finalizing"]
          /\ \E inserted \in BOOLEAN :
               /\ inserted => pc[p] = "writing" /\ to_sql(crimes, new_df[p]).ok
               /\ crimes' = IF inserted THEN to_sql(crimes, new_df[p]).table
                            ELSE crimes
               /\ committed' = IF inserted
                               THEN [committed EXCEPT ![p] = Len(new_df[p])]
                               ELSE committed
          /\ UNCHANGED <<files, ret, since_date, all_records, offset, fetched,
                         df, new_df>>
  /\ UNCHANGED <<upstream, shown, lastRun, clock, status>>

\* lines 352-363: the finally block saves the status dict and the cycle
\* returns status['success'], or the KeyboardInterrupt that reached the block
\* goes on to the caller (the other locals end with the call); open() can
\* fail (the file is left as it was) and json.dump can fail after open()
\* truncated the file
Finalize(p) ==
  /\ pc[p] = "finalizing"
  /\ LET report == status[p]
     IN /\ UNCHANGED status
        /\ \E open \in Answers, dump \in Answers :
             /\ open \/ dump
             /\ files' = IF ~open THEN files
                         ELSE IF ~dump THEN [files EXCEPT ![status_file] = Truncated]
                         ELSE [files EXCEPT ![status_file] = report]
             /\ IF open /\ dump THEN NoFault ELSE EnvFault(p, "save")
             /\ ret' = [ret EXCEPT ![p] =
                          IF "cancel" \in faults[p] THEN "KeyboardInterrupt"
                          ELSE ReturnValue(report, open /\ dump)]
        /\ lastRun' = report.start_time
  /\ pc' = [pc EXCEPT ![p] = "done"]
  /\ since_date' = [since_date EXCEPT ![p] = NaT]
  /\ all_records' = [all_records EXCEPT ![p] = <<>>]
  /\ offset' = [offset EXCEPT ![p] = 0]
  /\ fetched' = [fetched EXCEPT ![p] = NotFetched]
  /\ df' = [df EXCEPT ![p] = <<>>]
  /\ new_df' = [new_df EXCEPT ![p] = <<>>]
  /\ UNCHANGED <<crimes, upstream, shown, clock, committed>>

(***************************************************************************)
(* The status endpoint of the API (src/api.py).                            *)
(***************************************************************************)
\* update_status, lines 75-80: 'last_update' is the content of the file it
\* reads (NoFile stands for "No update history found")
last_update == files[api_status_file]

update_status ==
  /\ shown' = last_update
  /\ UNCHANGED <<crimes, upstream, files, clock, fetched, pc, status, since_date,
                 all_records, offset, df, new_df, ret, faults, committed,
                 nfaults, lastRun>>

Next ==
  \/ \E p \in Procs :
       \/ Start(p)
       \/ GetMetadata(p)
       \/ GetLatestDbDate(p)
       \/ FetchPage(p)
       \/ Clean(p)
       \/ Dedup(p)
       \/ Write(p)
       \/ Finalize(p)
       \/ Cancel(p)
  \/ update_status

Spec == Init /\ [][Next]_vars

(***************************************************************************)
(* Properties.                                                             *)
(***************************************************************************)
InCycle(p) == pc[p] \notin {"idle", "done"}

\* a KeyboardInterrupt arrived in p's cycle
Cancelled(p) == faults[p] \cap {"cancel", "cancel_save"} # {}

\* the save of p's report was attempted: the status file holds it, or the
\* save failed
SaveAttempted(p) == files[status_file] = status[p] \/ "save" \in faults[p]

\* C1: whatever the outcome of the phases, a cycle ends (returns) only by the
\* step of the finally block, and that step attempts the save of its report;
\* the one other end is a KeyboardInterrupt that lands in the finally block
\* itself (C17).
C1_SaveIsLastAction ==
  [][\A p \in Procs :
       (pc'[p] = "done" /\ pc[p] # "done") \/ (ret'[p] # "none" /\ ret[p] = "none")
         => /\ pc[p] = "finalizing"
            /\ SaveAttempted(p)' \/ "cancel_save" \in faults'[p]]_vars

\* C1 witness: a cycle that failed in its write phase has ended and the
\* status file holds its report.
C1_Witness ==
  \E p \in Procs :
    /\ pc[p] = "done"
    /\ status[p].error = "Database update failed"
    /\ files[status_file] = status[p]

\* C2: every cycle returns a boolean, and a failure of any of its phases is
\* recorded in the error field of its report.
C2_FailuresAreRecorded ==
  \A p \in Procs :
    pc[p] = "done" /\ ~Cancelled(p) =>
      /\ ret[p] \in {"True", "False"}
      /\ faults[p] # {} => status[p].error # PyNone

\* C3: at no time are two cycles in flight.
C3_NoOverlap == Cardinality({p \in Procs : InCycle(p)}) <= 1

C5_UniqueViolationIsBenign ==
  \A p \in Procs :
    pc[p] = "done" /\ "write_unique" \in faults[p] =>
      status[p].success /\ status[p].error = PyNone

\* C6: with the batch of 10 records of which the table accepts 9, the cycle
\* ends with 9 records inserted and success.
C6_PerRecordFallback ==
  \A p \in Procs :
    upstream = TenRecords /\ pc[p] = "done" /\ "write_rejected" \in faults[p] =>
      /\ status[p].success
      /\ status[p].records_inserted = 9
      /\ committed[p] = 9

\* C7: the inserted count of the report of a cycle is the number of rows the
\* cycle committed to the table.
C7_InsertedIsCommitted ==
  \A p \in Procs :
    pc[p] = "done" => status[p].records_inserted = committed[p]

\* the number of rows of the table that carry the identifier
RowsWith(id) == Cardinality({i \in 1..Len(crimes) : crimes[i].incident_id = id})

\* the two-page scenario ran as one cycle, the environment never failing
TwoPagesRan(p) ==
  /\ upstream = TwoPages
  /\ crimes[1] = TwoPagesTable[1]
  /\ clock = 1
  /\ pc[p] = "done"
  /\ nfaults = 0

\* C8: after the two-page scenario exactly one INC-100 row is in the table
\* and the report's inserted count is 5.
C8_TwoPagesScenario ==
  \A p \in Procs :
    TwoPagesRan(p) =>
      /\ RowsWith("INC-100") = 1
      /\ status[p].records_inserted = 5

\* C8 witness: the scenario ran: 6 records were fetched in two full pages.
C8_Witness ==
  \E p \in Procs : TwoPagesRan(p) /\ status[p].records_fetched = 6

\* C9: a cycle that fetched zero records (and was not interrupted) ends with
\* success, the "no new records" message, 0 records inserted, no error and
\* nothing written.
C9_ZeroRecordsIsSuccess ==
  \A p \in Procs :
    pc[p] = "done" /\ status[p].records_fetched = 0 /\ ~Cancelled(p) =>
      /\ status[p].success
      /\ ret[p] = "True"
      /\ status[p].message = "No new records available"
      /\ status[p].records_inserted = 0
      /\ status[p].error = PyNone
      /\ committed[p] = 0

\* C9 witness: a cycle in which nothing failed fetched zero records.
C9_Witness ==
  \E p \in Procs :
    pc[p] = "done" /\ status[p].records_fetched = 0 /\ faults[p] = {}

\* C10: once a cycle has finalized, what the status endpoint loads is the
\* report of the cycle that finalized last.
C10_StatusReflectsLastCycle ==
  lastRun # 0 =>
    /\ "start_time" \in DOMAIN last_update
    /\ last_update.start_time = lastRun

(***************************************************************************)
(* Pagination (fetch_all_new_records).                                     *)
(***************************************************************************)
\* the records the upstream holds for the filter of p's cycle, in its order
Upstream(p) == Matching(upstream, DateStr(p))

\* p's cycle has left the page loop
FetchEnded(p) ==
  /\ pc[p] \in {"cleaning", "dedup", "writing", "finalizing"}
  /\ fetched[p] # NotFetched
  /\ ~Cancelled(p)

\* C11: the page loop asks for the offsets 0, limit, 2*limit, ... and never
\* past the end of the finite upstream sequence (so it terminates); it goes on
\* only after a full page and stops at the first page that is empty, shorter
\* than limit or failed; what it has collected is at every moment, and when it
\* returns, the concatenation of the pages in order: a prefix of the upstream
\* sequence, all of it when no page failed.
C11_Pagination ==
  \A p \in Procs :
    /\ pc[p] = "fetching" =>
         /\ offset[p] % limit = 0
         /\ offset[p] <= Len(Upstream(p))
         /\ all_records[p] = SubSeq(Upstream(p), 1, offset[p])
         /\ fetched[p] # NotFetched => Len(fetched[p].records) = limit
    /\ FetchEnded(p) =>
         /\ Len(fetched[p].records) < limit
         /\ all_records[p] = SubSeq(Upstream(p), 1, Len(all_records[p]))
         /\ "fetch" \notin faults[p] => all_records[p] = Upstream(p)
         /\ "fetch" \in faults[p] =>
              /\ Len(all_records[p]) % limit = 0
              /\ fetched[p].records = <<>>

\* two full pages (offsets 0 and limit) and an empty third one (offset 2*limit)
\* end the loop with six records
C11_Witness ==
  \E p \in Procs :
    /\ pc[p] = "cleaning"
    /\ upstream = TwoPages
    /\ offset[p] = 2 * limit
    /\ Len(all_records[p]) = 2 * limit
    /\ fetched[p].records = <<>>
    /\ "fetch" \notin faults[p]

\* C12: a call of fetch_new_records that met a network failure or a
\* non-success response gives its caller an empty page and a zero total, and
\* signals the failure to the caller.
C12_FetchErrorSignalled ==
  \A p \in Procs :
    ("fetch" \in faults[p] /\ fetched[p] # NotFetched) =>
      /\ fetched[p].records = <<>>
      /\ fetched[p].total = 0
      /\ fetched[p].raised

(***************************************************************************)
(* The watermark and the fetch filter.                                     *)
(***************************************************************************)
\* p's cycle reads the watermark in this step
ReadsWatermark(p) == pc[p] = "watermark" /\ pc'[p] = "fetching"

\* the timestamp the filter date of p's cycle stands for
LowerBound(p) == to_datetime(DateStr(p))

\* C13 as stated: the lower bound of the fetch filter of a cycle is the
\* maximum occurrence timestamp in the store minus exactly one day, and
\* there is no filter when the store holds no occurrence timestamp.
C13_LowerBoundIsMaxMinusOneDay ==
  [][\A p \in Procs :
       ReadsWatermark(p) =>
         IF MaxOccurred(crimes) # NaT
         THEN /\ DateStr(p)' # PyNone
              /\ LowerBound(p)' = MaxOccurred(crimes) - Day
         ELSE DateStr(p)' = PyNone]_vars

\* C13 amended: when the watermark read succeeds on a store that holds an
\* occurrence timestamp, the lower bound of the fetch filter is the calendar
\* date (the time of day dropped) of the maximum occurrence timestamp in the
\* store at the time of the read minus one day; there is no filter when the
\* store holds no occurrence timestamp or the read fails.
C13_LowerBoundIsDateOfMaxMinusOneDay ==
  [][\A p \in Procs :
       ReadsWatermark(p) =>
         IF MaxOccurred(crimes) # NaT /\ "watermark" \notin faults'[p]
         THEN /\ DateStr(p)' # PyNone
              /\ LowerBound(p)' = ((MaxOccurred(crimes) - Day) \div Day) * Day
         ELSE DateStr(p)' = PyNone]_vars

\* a watermark of 2024-03-10 12:00 has given the filter date 2024-03-09
C13_Witness ==
  \E p \in Procs :
    /\ pc[p] = "fetching"
    /\ "watermark" \notin faults[p]
    /\ MaxOccurred(crimes) = to_datetime("2024-03-10 12:00")
    /\ DateStr(p) = "2024-03-09"

(***************************************************************************)
(* The normalizer on its own: clean_api_data applied to every batch of up  *)
(* to NormLen raw records.                                                 *)
(***************************************************************************)
NormProc == "once"

\* raw records: identifiers that are plain, untrimmed, blank, the string
\* 'nan', null or missing; dates that parse, do not parse or are missing
NormRecords ==
  { Raw(i, d, "ok") :
      i \in {"INC-1", "INC-100", " INC-100 ", "  ", "nan", PyNone, Absent},
      d \in {"2024-03-10", "2024-03-11", "garbage", Absent} }

NormBatches == SeqsUpTo(NormRecords, NormLen) \ {<<>>}

\* the state in which the callers in ps, started one after the other, have
\* each fetched the non-empty batch (all the upstream holds, every record
\* newer than the filter date) against table and stand before line 334
\* ("cleaning") or, the batch cleaned, before line 338 ("dedup")
InFlight(ps, phase, batch, table) ==
  LET start(p) == IF p = "once" THEN 1 ELSE Cardinality(ps)
      lastOffset == (Len(batch) \div limit) * limit
      cleaned == clean_api_data(batch).df
  IN /\ upstream = batch
     /\ crimes = table
     /\ files = [f \in FileNames |-> NoFile]
     /\ shown = NoFile
     /\ clock = Cardinality(ps)
     /\ pc = [p \in Procs |-> IF p \in ps THEN phase ELSE "idle"]
     /\ status = [p \in Procs |->
                   IF p \notin ps THEN NoStatus
                   ELSE [NewStatus(start(p)) EXCEPT
                           !.records_fetched = Len(batch),
                           !.records_cleaned =
                              IF phase = "dedup" THEN Len(cleaned) ELSE -1]]
     /\ since_date = [p \in Procs |->
                       IF p \in ps THEN SinceDate(MaxOccurred(table)) ELSE NaT]
     /\ all_records = [p \in Procs |-> IF p \in ps THEN batch ELSE <<>>]
     /\ offset = [p \in Procs |->
                   IF p \notin ps THEN 0
                   ELSE IF Len(batch) % limit = 0 THEN lastOffset
                   ELSE lastOffset + limit]
     /\ fetched = [p \in Procs |->
                    IF p \notin ps THEN NotFetched
                    ELSE [records |-> Page(batch, limit, lastOffset),
                          total |-> Len(batch), raised |-> FALSE]]
     /\ df = [p \in Procs |->
               IF p \in ps /\ phase = "dedup" THEN cleaned ELSE <<>>]
     /\ new_df = [p \in Procs |-> <<>>]
     /\ ret = [p \in Procs |-> "none"]
     /\ faults = [p \in Procs |-> {}]
     /\ committed = [p \in Procs |-> 0]
     /\ nfaults = 0
     /\ lastRun = 0

InitNorm == \E batch \in NormBatches : InFlight({NormProc}, "cleaning", batch, <<>>)

NextNorm == Clean(NormProc)

SpecNorm == InitNorm /\ [][NextNorm]_vars

\* the batch given to clean_api_data, what it returned, and whether it
\* returned / raised
Batch == all_records[NormProc]
Out == df[NormProc]
Cleaned == pc[NormProc] = "dedup"
CleanRaised == pc[NormProc] = "finalizing" /\ "normalize" \in faults[NormProc]

\* the cleaned identifier of the i-th record of the batch, and the row the
\* i-th record becomes
BatchId(i) == CleanId(Batch[i].inc)
BatchRow(i) ==
  CleanRow(Batch[i], HasColumn(Batch, "occ"), HasColumn(Batch, "addr"))

\* the i-th record of the batch has an occurrence timestamp that parses
Parses(i) == to_datetime(Batch[i].occ) # NaT

\* the i-th record passes the timestamp check of lines 211-213
PassesDateCheck(i) == HasColumn(Batch, "occ") => Parses(i)

UniqueOut ==
  \A k, l \in 1..Len(Out) : Out[k].incident_id = Out[l].incident_id => k = l

\* C14 as stated: no two output records share an identifier, and the record
\* of each surviving identifier is the first input record carrying that
\* identifier (after trimming).
C14_FirstOccurrenceKept ==
  Cleaned =>
    /\ UniqueOut
    /\ \A k \in 1..Len(Out) :
         \E i \in 1..Len(Batch) :
           /\ BatchId(i) = Out[k].incident_id
           /\ \A j \in 1..(i - 1) : BatchId(j) # Out[k].incident_id
           /\ Out[k] = BatchRow(i)

\* C14 amended: no two output records share an identifier, and the record of
\* each surviving identifier is the first input record carrying that
\* identifier (after trimming) among the records that the timestamp check
\* does not drop.
C14_FirstValidOccurrenceKept ==
  Cleaned =>
    /\ UniqueOut
    /\ \A k \in 1..Len(Out) :
         \E i \in 1..Len(Batch) :
           /\ BatchId(i) = Out[k].incident_id
           /\ PassesDateCheck(i)
           /\ \A j \in 1..(i - 1) :
                BatchId(j) = Out[k].incident_id => ~PassesDateCheck(j)
           /\ Out[k] = BatchRow(i)

\* two records with the same identifier after trimming and different dates,
\* both valid: one row comes out
C14_Witness ==
  /\ Cleaned
  /\ Len(Batch) = 2
  /\ Batch[1].inc # Batch[2].inc
  /\ BatchId(1) = BatchId(2)
  /\ Parses(1) /\ Parses(2)
  /\ Batch[1].occ # Batch[2].occ
  /\ Len(Out) = 1

\* C15: every record without an occurrence timestamp that parses is absent
\* from the output of the normalizer, also when no record of the batch
\* carries the occurrence field.
C15_UnparsableDateDropped ==
  Cleaned => \A k \in 1..Len(Out) : Out[k].occurred_date # NaT

\* the identifier of the i-th record is missing, null, empty after trimming
\* or the 'nan' sentinel
BadId(i) ==
  \/ Batch[i].inc \in {Absent, PyNone}
  \/ Strip(Batch[i].inc) \in {"", "nan"}

\* C16: the normalizer drops every record whose identifier is missing, null,
\* empty after trimming or a sentinel, and never errors the batch on them: the
\* valid records of the batch are still returned.
C16_BadIdDroppedWithoutError ==
  pc[NormProc] # "cleaning" =>
    /\ ~CleanRaised
    /\ \A i \in 1..Len(Batch) :
         BadId(i) => \A k \in 1..Len(Out) : Out[k].incident_id # BatchId(i)
    /\ \A i \in 1..Len(Batch) :
         (~BadId(i) /\ Parses(i)) =>
           \E k \in 1..Len(Out) : Out[k].incident_id = BatchId(i)

(***************************************************************************)
(* Cancellation and finalization.                                          *)
(***************************************************************************)
\* C17: a cancellation that arrives at any point of a cycle in flight still
\* leads through finalization: the cycle ends only with the save of its
\* partial report attempted.
C17_CancelledCycleIsReported ==
  [][\A p \in Procs :
       (pc'[p] = "done" /\ pc[p] # "done" /\ Cancelled(p)')
         => pc[p] = "finalizing" /\ SaveAttempted(p)']_vars

\* C18: the value a cycle returns is the success its report held before the
\* save, and the report is left as it was, whether the save goes through or
\* fails.
C18_SaveFailureKeepsOutcome ==
  [][\A p \in Procs :
       (pc[p] = "finalizing" /\ pc'[p] = "done" /\ ~Cancelled(p)')
         => /\ ret'[p] = IF status[p].success THEN "True" ELSE "False"
            /\ status'[p] = status[p]]_vars

\* a successful cycle whose save failed has returned True
C18_Witness ==
  \E p \in Procs :
    /\ pc[p] = "done"
    /\ "save" \in faults[p]
    /\ files[status_file] # status[p]
    /\ status[p].success
    /\ ret[p] = "True"

(***************************************************************************)
(* The deduplication gate on its own: update_database applied twice to the *)
(* same candidates, by two cycles one after the other.                     *)
(***************************************************************************)
\* raw records of one date with plain identifiers, identifiers that hold
\* quote characters and a blank identifier (which leaves no candidate)
GateRecords ==
  { Raw(i, "2024-03-10", "ok") :
      i \in {"INC-1", "INC-2", "INC-1', 'INC-2", "O'B", "  "} }

GateBatches == SeqsUpTo(GateRecords, NormLen) \ {<<>>}

GateTables ==
  { <<>>, <<Row("INC-1", 20, "ok")>>,
    <<Row("INC-1", 20, "ok"), Row("INC-2", 20, "ok")>> }

\* both callers hold the same cleaned candidates
InitGate ==
  \E batch \in GateBatches, table \in GateTables :
    InFlight(Procs, "dedup", batch, table)

\* the first cycle filters and writes; when it is through, the second filters
NextGate ==
  \/ Dedup("once")
  \/ Write("once")
  \/ pc["once"] = "finalizing" /\ Dedup("scheduler")

SpecGate == InitGate /\ [][NextGate]_vars

\* the results of the first and of the second application of the filter
First == new_df["once"]
Second == new_df["scheduler"]

\* the first application returned, its result is written, and the second
\* application returned
FilteredTwice ==
  /\ pc["once"] = "finalizing"
  /\ "dedup" \notin faults["once"]
  /\ committed["once"] = Len(First)
  /\ pc["scheduler"] # "dedup"
  /\ "dedup" \notin faults["scheduler"]

\* C19: the filter of new records applied twice to the same candidates, the
\* first result written in between, gives disjoint results, and the second
\* result is empty once all candidates are in the table.
C19_SecondFilterIsDisjoint ==
  FilteredTwice =>
    /\ Ids(First) \cap Ids(Second) = {}
    /\ Ids(df["scheduler"]) \subseteq Ids(crimes) => Second = <<>>

(***************************************************************************)
(* The store writer.                                                       *)
(***************************************************************************)
\* C20: the crimes table is append-only: every step of every cycle, succeeding
\* or failing, leaves each row that was in the table in its place and
\* unchanged.
C20_AppendOnly ==
  [][/\ Len(crimes') >= Len(crimes)
     /\ \A i \in 1..Len(crimes) : crimes'[i] = crimes[i]]_vars

\* a cycle has added rows to a table that held a row before, and a later
\* event has failed
C20_Witness ==
  \E p \in Procs :
    /\ committed[p] > 0
    /\ Len(crimes) > committed[p]
    /\ crimes[1] \in {Row("INC-1", 21, "ok"), TwoPagesTable[1]}
    /\ nfaults > 0

(***************************************************************************)
(* The order of the phases.                                                *)
(***************************************************************************)
\* the phase that follows ph when it ends without failure and with work left
NextPhase(ph) ==
  CASE ph = "metadata" -> "watermark"
    [] ph = "watermark" -> "fetching"
    [] ph = "fetching" -> "cleaning"
    [] ph = "cleaning" -> "dedup"
    [] ph = "dedup" -> "writing"
    [] ph = "writing" -> "finalizing"
    [] ph = "finalizing" -> "done"
    [] OTHER -> "metadata"

\* p's cycle moves only to the next phase, or from a work phase straight to
\* the finalization
InOrder(p) ==
  pc'[p] # pc[p] =>
    \/ pc'[p] = NextPhase(pc[p])
    \/ InCycle(p) /\ pc'[p] = "finalizing"

\* the phase of p's cycle that fails in this step, if one of fetching,
\* normalizing, deduplicating, writing does
WorkFailures ==
  {"fetch", "normalize", "dedup", "write", "write_unique", "write_rejected",
   "count"}
FailsInWork(p) == (faults'[p] \ faults[p]) \cap WorkFailures # {}

\* C21: the phases of every cycle run in order only, and a failure in
\* fetching, normalizing, deduplicating or writing takes the cycle directly to
\* the finalization, no later work phase running, with an error recorded in
\* its report.
C21_OrderAndFailureToFinalizing ==
  [][\A p \in Procs :
       /\ InOrder(p)
       /\ FailsInWork(p) =>
            /\ pc'[p] = "finalizing"
            /\ status'[p].error # PyNone]_vars

(***************************************************************************)
(* The filter of new records (update_database, lines 237-268).             *)
(***************************************************************************)
\* p's cycle applies the filter in this step and the environment does not
\* fail it
Filters(p) == pc[p] = "dedup" /\ pc'[p] # "dedup" /\ nfaults' = nfaults

\* the candidates of p whose identifier is not in the table, in their order
NotStored(p) ==
  SelectSeq(df[p], LAMBDA w : w.incident_id \notin Ids(crimes))

\* C22: for every candidate set and table, identifiers with quote characters
\* included, the filter returns exactly the candidates whose identifier is not
\* in the table at the time of the lookup, in the order of the candidates;
\* with no candidate it returns none and issues no lookup (none can fail).
C22_FilterReturnsExactlyTheNew ==
  [][\A p \in Procs :
       /\ Filters(p) =>
            /\ "dedup" \notin faults'[p]
            /\ new_df'[p] = NotStored(p)
       /\ (pc[p] = "dedup" /\ pc'[p] # "dedup" /\ Len(df[p]) = 0) =>
            /\ new_df'[p] = <<>>
            /\ UNCHANGED <<faults, nfaults>>]_vars

(***************************************************************************)
(* The report of a cycle.                                                  *)
(***************************************************************************)
\* C23: in the report of every cycle that runs to its return (the report the
\* finally block saves), success is true exactly when no error is recorded
\* and false exactly when an error message is.
C23_SuccessIffNoError ==
  \A p \in Procs :
    (pc[p] \in {"finalizing", "done"} /\ ~Cancelled(p)) =>
      (status[p].success <=> status[p].error = PyNone)

\* one caller's cycle has returned with success and no error, the other's has
\* returned with an error and no success, and its report is the one saved
C23_Witness ==
  \E p, q \in Procs :
    /\ pc[p] = "done" /\ pc[q] = "done"
    /\ ~Cancelled(p) /\ ~Cancelled(q)
    /\ status[p].success /\ status[p].error = PyNone
    /\ ~status[q].success /\ status[q].error # PyNone
    /\ files[status_file] = status[q]

\* C24: a failed page fetch is never recorded in the report.  When the first
\* page fails the cycle ends with success and the "no new records" message;
\* when a later page fails the cycle processes the pages it has and, nothing
\* else failing, ends with success and no error.
C24_FailedFetchIsNotRecorded ==
  \A p \in Procs :
    (pc[p] \in {"finalizing", "done"} /\ "fetch" \in faults[p] /\ ~Cancelled(p))
      => /\ status[p].records_fetched = 0 =>
              /\ status[p].success
              /\ status[p].message = "No new records available"
              /\ status[p].error = PyNone
         /\ status[p].records_fetched > 0 =>
              /\ status[p].records_fetched % limit = 0
              /\ status[p].records_cleaned # -1 \/ "normalize" \in faults[p]
              /\ faults[p] = {"fetch"} =>
                   /\ status[p].success
                   /\ status[p].error = PyNone

\* the second page failed after a full first page; the first page was
\* written and the cycle has returned True
C24_Witness ==
  \E p \in Procs :
    /\ pc[p] = "done"
    /\ faults[p] = {"fetch"}
    /\ status[p].records_fetched = limit
    /\ committed[p] > 0
    /\ status[p].success
    /\ ret[p] = "True"

\* C25: a cycle whose watermark read failed does not abort: it goes on to
\* the fetch with no since_date and no filter, as a cycle on an empty table
\* does, and what it fetches is the whole upstream dataset.
C25_WatermarkFailureMeansFullFetch ==
  \A p \in Procs :
    ("watermark" \in faults[p] /\ InCycle(p)) =>
      /\ since_date[p] = NaT
      /\ DateStr(p) = PyNone
      /\ pc[p] = "fetching" =>
           /\ status[p].error = PyNone
           /\ all_records[p] = SubSeq(upstream, 1, offset[p])
      /\ (pc[p] = "finalizing" /\ ~Cancelled(p)) => fetched[p] # NotFetched
      /\ (FetchEnded(p) /\ "fetch" \notin faults[p]) => all_records[p] = upstream

\* on a table that holds a timestamp the read failed and the cycle has fetched
\* all the upstream holds, a record older than the watermark included
C25_Witness ==
  \E p \in Procs :
    /\ "watermark" \in faults[p]
    /\ FetchEnded(p)
    /\ MaxOccurred(crimes) # NaT
    /\ all_records[p] = upstream
    /\ \E i \in 1..Len(upstream) :
         to_datetime(upstream[i].occ) < MaxOccurred(crimes) - Day

=============================================================================
